---- MODULE Spec2Model ----
(***************************************************************************)
(* PeachBoard: a state-machine model of the board view (BoardPage), the    *)
(* route table of the entry point, the login page and the dashboard.       *)
(*                                                                         *)
(* Numbers.  Coordinates are integers.  The stage scale is kept in         *)
(* thousandths (ScaleUnit = 1000 stands for 1.0), and a division of two    *)
(* numbers is the integer quotient.                                        *)
(*                                                                         *)
(* React.  A state variable holds the value React has for it after all     *)
(* queued updater functions have run.  The values a handler closes over    *)
(* (and the attributes of the Konva stage node) are those of the last      *)
(* committed render; they are kept in the r* variables and refreshed by    *)
(* the action Render, which also runs the effects of the component.        *)
(***************************************************************************)
EXTENDS Integers, Sequences, FiniteSets, TLC

\* ------------------------------------------------------------------ bounds
MaxCoord == 1
MaxPoints == 2
MaxGestures == 1
MaxForeign == 1
\* zoom and pan inputs handled in a run
MaxZooms == 4
\* operations of the user and failures of the services in a run
MaxOps == 3

\* --------------------------------------------------------------- constants
ScaleUnit == 1000
MIN_SCALE == 20
MAX_SCALE == 8000

VARIABLES
  \* BoardPage: React state
  board, loading, error, elements, stageScale, stagePos, zoomInputValue,
  tool, strokeColor, strokeWidth,
  \* BoardPage: refs; and history: the stage translation at the middle-button
  \* press that recorded the pan anchor (NoPoint: the anchor is of no such press)
  isDrawing, isPanning, lastDist, lastCenter, panStartPoint, drawingStartPoint, panFrom,
  \* BoardPage: what the last committed render captured
  rElements, rBoard, rShown, rScale, rPos, channel,
  \* backend and requests in flight
  params, load, peachboards, boardLines, fetches, issued, inflight,
  \* history: the number of drawing gestures started; whether a notification
  \* was dropped as a duplicate; the number of zoom and pan inputs handled
  gesture, dupSkipped, zooms,
  \* the application: the path shown, the page element rendered for it, the
  \* number of that page instance, the session the auth service holds
  location, page, inst, session,
  \* DashboardPage: React state (loading and error are dashLoading, dashError;
  \* rename is renamingBoardId and renameValue); history: the list fetch the
  \* page sent last, and its response once the page has handled it
  newBoardName, userId, dashLoading, dashError, boards, fetchLoading, fetchError,
  actionLoading, actionError, rename, fetched,
  \* requests of the dashboard and the login page in flight, the number issued;
  \* history: the operations the user and the environment did, the rows created
  calls, ncalls, ops, created,
  \* AuthProvider: its state, its session probe, and history (whether the
  \* auth listener has been called, the number of its calls)
  auth

boardVars == <<board, loading, error, elements, stageScale, stagePos, zoomInputValue,
               tool, strokeColor, strokeWidth>>
refVars == <<isDrawing, isPanning, lastDist, lastCenter, panStartPoint, drawingStartPoint,
             panFrom>>
renderVars == <<rElements, rBoard, rShown, rScale, rPos, channel>>
netVars == <<params, load, peachboards, boardLines, fetches, issued, inflight>>
histVars == <<gesture, dupSkipped, zooms>>
appVars == <<location, page, inst, session>>
dashVars == <<newBoardName, userId, dashLoading, dashError, boards, fetchLoading,
              fetchError, actionLoading, actionError, rename, fetched>>
callVars == <<calls, ncalls, ops, created>>
authVars == <<auth>>
pageVars == <<appVars, dashVars, callVars, authVars>>
\* the board view but for the table of boards
viewVars == <<boardVars, refVars, renderVars, params, load, boardLines, fetches, issued,
              inflight, histVars, authVars>>
vars == <<boardVars, refVars, renderVars, netVars, histVars, pageVars>>

\* ------------------------------------------------------------------ values
Coords == 0..MaxCoord
\* pointer positions: on the diagonal or on the x axis
Pts == {q \in [x : Coords, y : Coords] : q.y = q.x \/ q.y = 0}
NoPoint == [x |-> -1000, y |-> -1000]   \* a ref holding null
Tools == {"pen", "rectangle", "circle", "eraser"}
BoardIds == {1, 2}
NoBoard == 0
NoId == 0

Abs(n) == IF n < 0 THEN -n ELSE n
Max(a, b) == IF a > b THEN a ELSE b
Min(a, b) == IF a < b THEN a ELSE b
Last(s) == s[Len(s)]
Front(s) == SubSeq(s, 1, Len(s) - 1)

\* Math.sqrt on a non-negative integer, rounded down
\* (found by bisection: lo * lo <= n < hi * hi)
RECURSIVE SqrtFrom(_, _, _)
SqrtFrom(n, lo, hi) ==
  IF hi - lo <= 1 THEN lo
  ELSE LET mid == (lo + hi) \div 2
       IN IF mid * mid <= n THEN SqrtFrom(n, mid, hi) ELSE SqrtFrom(n, lo, mid)
Sqrt(n) == SqrtFrom(n, 0, n + 1)

getDistance(p1, p2) == Sqrt((p2.x - p1.x) * (p2.x - p1.x) + (p2.y - p1.y) * (p2.y - p1.y))
getCenter(p1, p2) == [x |-> (p1.x + p2.x) \div 2, y |-> (p1.y + p2.y) \div 2]

\* A BoardElement.  id = NoId is an absent id.  The fields a tool does not
\* have are 0 / <<>>.  g is history: the number of the gesture whose
\* pointer-down created the element (0 for an element read from a row).
LineElement(t, pos, c, w, g) ==
  [id |-> NoId, tool |-> t, points |-> <<pos.x, pos.y>>, x |-> 0, y |-> 0,
   width |-> 0, height |-> 0, radius |-> 0, color |-> c, strokeWidth |-> w, g |-> g]
RectangleElement(pos, c, w, g) ==
  [id |-> NoId, tool |-> "rectangle", points |-> <<>>, x |-> pos.x, y |-> pos.y,
   width |-> 0, height |-> 0, radius |-> 0, color |-> c, strokeWidth |-> w, g |-> g]
CircleElement(pos, c, w, g) ==
  [id |-> NoId, tool |-> "circle", points |-> <<>>, x |-> pos.x, y |-> pos.y,
   width |-> 0, height |-> 0, radius |-> 0, color |-> c, strokeWidth |-> w, g |-> g]

\* element_data of a row: the fields present are listed in has
LineData(t, pts, c, w) ==
  [tool |-> t, points |-> pts, x |-> 0, y |-> 0, width |-> 0, height |-> 0, radius |-> 0,
   color |-> c, strokeWidth |-> w, has |-> {"tool", "points", "color", "strokeWidth"}]
RectData(x, y, wd, ht, c, w) ==
  [tool |-> "rectangle", points |-> <<>>, x |-> x, y |-> y, width |-> wd, height |-> ht,
   radius |-> 0, color |-> c, strokeWidth |-> w,
   has |-> {"tool", "x", "y", "width", "height", "color", "strokeWidth"}]
CircleData(x, y, r, c, w) ==
  [tool |-> "circle", points |-> <<>>, x |-> x, y |-> y, width |-> 0, height |-> 0,
   radius |-> r, color |-> c, strokeWidth |-> w,
   has |-> {"tool", "x", "y", "radius", "color", "strokeWidth"}]

\* ------------------------------------------------------ reading a row back
\* the element a reader builds for a row whose element_data passed its checks
\* (a missing width, height or radius reads as 0)
ElementOf(row) ==
  LET d == row.element_data
  IN [id |-> row.id, tool |-> d.tool,
      points |-> IF d.tool \in {"pen", "eraser"} THEN d.points ELSE <<>>,
      x |-> IF d.tool \in {"pen", "eraser"} THEN 0 ELSE d.x,
      y |-> IF d.tool \in {"pen", "eraser"} THEN 0 ELSE d.y,
      width |-> IF d.tool = "rectangle" /\ "width" \in d.has THEN d.width ELSE 0,
      height |-> IF d.tool = "rectangle" /\ "height" \in d.has THEN d.height ELSE 0,
      radius |-> IF d.tool = "circle" /\ "radius" \in d.has THEN d.radius ELSE 0,
      color |-> d.color, strokeWidth |-> d.strokeWidth, g |-> 0]

\* the shape test both readers apply to element_data (an absent tool is
\* undefined and equals no tool tag)
ShapeOk(d) ==
  /\ "tool" \in d.has
  /\ \/ d.tool \in {"pen", "eraser"} /\ "points" \in d.has /\ Len(d.points) > 0
     \/ d.tool = "rectangle" /\ "x" \in d.has
     \/ d.tool = "circle" /\ "x" \in d.has

\* fetchInitialElements: the .map callback; <<>> is null (the row is skipped)
ReadInitial(row) ==
  LET d == row.element_data
  IN IF /\ "tool" \in d.has /\ d.tool # ""
        /\ "color" \in d.has /\ d.color # ""
        /\ "strokeWidth" \in d.has /\ d.strokeWidth # 0
        /\ ShapeOk(d)
     THEN <<ElementOf(row)>>
     ELSE <<>>

\* the realtime INSERT callback: the element built from payload.new
ReadRealtime(row) ==
  IF ShapeOk(row.element_data) THEN <<ElementOf(row)>> ELSE <<>>

\* (a changed version: the updater appends without looking for the id)
MergeRealtimeAlways(prevElements, newElement) == Append(prevElements, newElement)

\* the updater of the realtime callback: append unless the id is in the list
MergeRealtime(prevElements, newElement) ==
  IF ~(\E i \in 1..Len(prevElements) : prevElements[i].id = newElement.id)
  THEN Append(prevElements, newElement)
  ELSE prevElements

\* fetchInitialElements: rows mapped and the nulls filtered out
RECURSIVE MapRows(_)
MapRows(rows) ==
  IF rows = <<>> THEN <<>> ELSE ReadInitial(rows[1]) \o MapRows(Tail(rows))

\* ---------------------------------------------------------- saving, drawing
\* the Rect the drawing layer renders for a rectangle element
RenderRect(e) ==
  [x |-> IF e.width < 0 THEN e.x + e.width ELSE e.x,
   y |-> IF e.height < 0 THEN e.y + e.height ELSE e.y,
   width |-> Abs(e.width), height |-> Abs(e.height)]

\* (a changed version: the sizes are made absolute, the origin is kept)
NormalizeRectSizesOnly(e) ==
  RectData(e.x, e.y, Abs(e.width), Abs(e.height), e.color, e.strokeWidth)

\* saveElementToDb: the rectangle payload (origin folded, sizes absolute)
NormalizeRect(e) ==
  RectData(IF e.width < 0 THEN e.x + e.width ELSE e.x,
           IF e.height < 0 THEN e.y + e.height ELSE e.y,
           Abs(e.width), Abs(e.height), e.color, e.strokeWidth)

\* (a changed version: a stroke is refused only when it has no point at all)
StrokeTooShortByOne(e) == Len(e.points) < 2

\* saveElementToDb: a stroke with fewer than two points is not saved
StrokeTooShort(e) == Len(e.points) < 4

\* saveElementToDb up to the insert: what it does with the list it closed over.
\* kind "none": return; "slice": setElements(prev => prev.slice(0, -1)) and
\* return; "insert": the request is sent with payload data.
SaveDecision(b, els) ==
  LET nothing == [kind |-> "none", data |-> LineData("pen", <<>>, "", 0)]
      last == Last(els)
  IN IF b = NoBoard \/ els = <<>> THEN nothing
     ELSE IF last.tool \in {"pen", "eraser"}
     THEN IF StrokeTooShort(last) THEN nothing
          ELSE [kind |-> "insert",
                data |-> LineData(last.tool, last.points, last.color, last.strokeWidth)]
     ELSE IF last.tool = "rectangle"
     THEN IF last.width = 0 \/ last.height = 0
          THEN [nothing EXCEPT !.kind = "slice"]
          ELSE [kind |-> "insert", data |-> NormalizeRect(last)]
     ELSE IF last.tool = "circle"
     THEN IF last.radius = 0
          THEN [nothing EXCEPT !.kind = "slice"]
          ELSE [kind |-> "insert",
                data |-> CircleData(last.x, last.y, Abs(last.radius), last.color,
                                    last.strokeWidth)]
     ELSE nothing

\* saveElementToDb as called by handleMouseUp / handleTouchEnd: it reads board
\* and elements of the render that created the handler (rBoard, rElements);
\* the slice is an updater and runs on the current list.  An entry of issued
\* is a request sent; its field from is history: the element that was read.
SaveElementToDb ==
  LET dec == SaveDecision(rBoard, rElements)
  IN /\ elements' = IF dec.kind = "slice" /\ elements # <<>> THEN Front(elements)
                    ELSE elements
     /\ IF dec.kind = "insert"
        THEN /\ issued' = Append(issued, [board_id |-> rBoard, element_data |-> dec.data,
                                          from |-> Last(rElements)])
             /\ inflight' = inflight \cup {Len(issued) + 1}
        ELSE UNCHANGED <<issued, inflight>>

\* stage.getRelativePointerPosition(): the pointer in the stage's coordinates
Rel(p) ==
  [x |-> ((p.x - rPos.x) * ScaleUnit) \div rScale,
   y |-> ((p.y - rPos.y) * ScaleUnit) \div rScale]

\* (a changed version: the element is anchored at the origin of the stage)
NewElementAtOrigin(pos, g) ==
  IF tool \in {"pen", "eraser"}
  THEN LineElement(tool, [x |-> 0, y |-> 0], strokeColor, strokeWidth, g)
  ELSE IF tool = "rectangle"
  THEN RectangleElement([x |-> 0, y |-> 0], strokeColor, strokeWidth, g)
  ELSE CircleElement([x |-> 0, y |-> 0], strokeColor, strokeWidth, g)

\* the element a pointer-down appends for the selected tool
NewElement(pos, g) ==
  IF tool \in {"pen", "eraser"} THEN LineElement(tool, pos, strokeColor, strokeWidth, g)
  ELSE IF tool = "rectangle" THEN RectangleElement(pos, strokeColor, strokeWidth, g)
  ELSE CircleElement(pos, strokeColor, strokeWidth, g)

\* the updater of handleMouseMove / handleTouchMove while drawing
MoveUpdate(prevElements, point) ==
  IF prevElements = <<>> THEN prevElements
  ELSE LET cur == Last(prevElements)
           dx == point.x - drawingStartPoint.x
           dy == point.y - drawingStartPoint.y
       IN IF cur.tool \in {"pen", "eraser"}
          THEN Append(Front(prevElements),
                      [cur EXCEPT !.points = cur.points \o <<point.x, point.y>>])
          ELSE IF cur.tool = "rectangle" /\ drawingStartPoint # NoPoint
          THEN Append(Front(prevElements), [cur EXCEPT !.width = dx, !.height = dy])
          ELSE IF cur.tool = "circle" /\ drawingStartPoint # NoPoint
          THEN Append(Front(prevElements), [cur EXCEPT !.radius = Sqrt(dx * dx + dy * dy)])
          ELSE prevElements

\* (a changed version: the scale is bounded from below only)
ClampFromBelow(s) == Max(MIN_SCALE, s)

\* Math.max(MIN_SCALE, Math.min(MAX_SCALE, newScale))
Clamp(s) == Max(MIN_SCALE, Min(MAX_SCALE, s))

\* ------------------------------------------------------------------- tables
\* rows of peachboards the board view can be opened on
BoardRow(b) == [id |-> b, name |-> "a", share_link_id |-> 10 + b, owner_id |-> b]
\* the route parameters the page is opened with: a board id, a share link id,
\* the id of no board
NoParam == 0
ById(b) == [boardId |-> b, shareLinkId |-> NoParam]
ByShareLink(l) == [boardId |-> NoParam, shareLinkId |-> l]
\* what another client writes into board_lines
ForeignData == {RectData(0, 0, 1, 1, "#0000ff", 5)}
NextRowId == Len(boardLines) + 1

\* -------------------------------------------------------- the application
NoUser == 0
\* what can be typed into the board name input
Names == {"", " ", "a", " a "}
\* String.prototype.trim on Names
Trim(name) ==
  CASE name = " " -> ""
    [] name = " a " -> "a"
    [] OTHER -> name

\* paths: /login, /dashboard, /board/<arg>, /board/share/<arg>, /share/<arg>, /
Path(route, arg) == [route |-> route, arg |-> arg]
LoginPath == Path("login", 0)
DashboardPath == Path("dashboard", 0)
\* the paths a visitor opens
Urls == {LoginPath, DashboardPath, Path("root", 0), Path("board", 1),
         Path("boardShare", 12), Path("share", 12)}

\* main.tsx: the element of the route that matches a path ("none": no route)
RouteElement(path) ==
  CASE path.route = "login" -> "LoginPage"
    [] path.route = "dashboard" -> "DashboardPage"
    [] path.route = "board" -> "BoardPage"
    [] path.route = "boardShare" -> "BoardPage"
    [] path.route = "root" -> "LoginPage"
    [] OTHER -> "none"

\* useParams of the element
RouteParams(path) ==
  CASE path.route = "board" -> ById(path.arg)
    [] path.route = "boardShare" -> ByShareLink(path.arg)
    [] OTHER -> [boardId |-> NoParam, shareLinkId |-> NoParam]

\* the path a board page with these parameters is shown on
PathOf(p) ==
  IF p.shareLinkId # NoParam THEN Path("boardShare", p.shareLinkId)
  ELSE Path("board", p.boardId)

\* A request in flight: op is getUser, getSession, signOut, insert, select,
\* delete or update; i is the page instance that sent it.  served, ok, rows, user and
\* row are the response; typed, by and after are history (the name in the
\* input and the user id of the page when the insert was sent; the row whose
\* creation made the page send the select).
NewCall(id, op, i) ==
  [id |-> id, inst |-> i, op |-> op, owner |-> NoUser, name |-> "",
   row |-> NoBoard, served |-> FALSE, ok |-> FALSE, rows |-> <<>>, user |-> NoUser,
   typed |-> "", by |-> NoUser, after |-> NoBoard]

\* the requests a page sends from its mount effect
MountCalls(element, i, id) ==
  CASE element = "DashboardPage" -> {NewCall(id, "getUser", i)}
    [] element = "LoginPage" -> {NewCall(id, "getSession", i)}
    [] OTHER -> {}

\* AuthProvider as constructed: no session, loading, the probe not answered
AuthFresh ==
  auth = [session |-> NoUser, user |-> NoUser, loading |-> TRUE, probe |-> "pending",
          probed |-> NoUser, heard |-> FALSE, events |-> 0]

\* no board is renamed
NoRename == [id |-> NoBoard, value |-> ""]
\* no list fetch was sent
NoFetch == [id |-> 0, done |-> FALSE, ok |-> FALSE, rows |-> <<>>]

\* DashboardPage as constructed
DashFresh ==
  /\ newBoardName = "" /\ userId = NoUser /\ dashLoading = FALSE /\ dashError = ""
  /\ boards = <<>> /\ fetchLoading = FALSE /\ fetchError = ""
  /\ actionLoading = NoBoard /\ actionError = ""
  /\ rename = NoRename /\ fetched = NoFetch

\* BoardPage as constructed, but for its route parameters
BoardFresh ==
  /\ board = NoBoard /\ loading = TRUE /\ error = <<>> /\ elements = <<>>
  /\ stageScale = ScaleUnit /\ stagePos = [x |-> 0, y |-> 0]
  /\ zoomInputValue = [text |-> "100", num |-> 100]
  /\ tool = "pen" /\ strokeColor = "#df4b26" /\ strokeWidth = 5
  /\ isDrawing = FALSE /\ isPanning = FALSE /\ lastDist = 0 /\ lastCenter = NoPoint
  /\ panStartPoint = NoPoint /\ drawingStartPoint = NoPoint /\ panFrom = NoPoint
  /\ rElements = <<>> /\ rBoard = NoBoard /\ rShown = FALSE
  /\ rScale = ScaleUnit /\ rPos = [x |-> 0, y |-> 0] /\ channel = NoBoard
  /\ boardLines = <<>> /\ fetches = {} /\ issued = <<>> /\ inflight = {}
  /\ gesture = 0 /\ dupSkipped = FALSE /\ zooms = 0

\* --------------------------------------------------------------------- Init
\* a signed-in user has a board page open on one of the routes
InitOn(routes) ==
  /\ BoardFresh
  /\ params \in routes /\ load = "mounted"
  /\ peachboards = {BoardRow(b) : b \in BoardIds}
  /\ location = PathOf(params) /\ page = "BoardPage" /\ inst = 1 /\ session = 1
  /\ DashFresh /\ AuthFresh
  /\ calls = {} /\ ncalls = 0 /\ ops = 0 /\ created = <<>>

\* ------------------------------------------------------ loading the board
\* the effect on [boardId, shareLinkId]: fetchBoardDetails up to its await
FetchBoardDetails ==
  /\ load = "mounted"
  /\ board' = NoBoard /\ elements' = <<>>
  /\ IF params.shareLinkId # NoParam \/ params.boardId # NoParam
     THEN /\ loading' = TRUE /\ error' = <<>> /\ load' = "query"
     ELSE /\ loading' = FALSE /\ error' = <<"No board ID or share link ID provided.">>
          /\ load' = "done"
  /\ UNCHANGED <<stageScale, stagePos, zoomInputValue, tool, strokeColor, strokeWidth,
                 refVars, renderVars, params, peachboards, boardLines, fetches, issued,
                 inflight, gesture, dupSkipped, zooms>>
  /\ UNCHANGED pageVars

\* the rows query.single() selects
Matching ==
  {r \in peachboards : IF params.shareLinkId # NoParam
                       THEN r.share_link_id = params.shareLinkId
                       ELSE r.id = params.boardId}

\* fetchBoardDetails after the await, one row found: setBoard, then
\* fetchInitialElements up to its await, then finally
BoardFound ==
  /\ load = "query"
  /\ \E data \in Matching :
       /\ board' = data.id
       /\ fetches' = fetches \cup {[board |-> data.id, served |-> FALSE, rows |-> <<>>]}
  /\ loading' = FALSE /\ load' = "done"
  /\ UNCHANGED <<error, elements, stageScale, stagePos, zoomInputValue, tool, strokeColor,
                 strokeWidth, refVars, renderVars, params, peachboards, boardLines, issued,
                 inflight, gesture, dupSkipped, zooms>>
  /\ UNCHANGED pageVars

\* fetchBoardDetails after the await, fetchError set (no row: PGRST116; or
\* any other error) or the request rejected
BoardNotFound ==
  /\ load = "query"
  /\ \E msg \in {"Board not found or access denied.", "Error loading board", "Failed to load board"} :
       /\ msg = "Board not found or access denied." => Matching = {}
       /\ error' = <<msg>>
  /\ loading' = FALSE /\ load' = "done"
  /\ UNCHANGED <<board, elements, stageScale, stagePos, zoomInputValue, tool, strokeColor,
                 strokeWidth, refVars, renderVars, params, peachboards, boardLines, fetches,
                 issued, inflight, gesture, dupSkipped, zooms>>
  /\ UNCHANGED pageVars

\* the backend answers the select of fetchInitialElements
FetchServe ==
  \E f \in fetches :
    /\ ~f.served
    /\ fetches' = (fetches \ {f}) \cup
                  {[f EXCEPT !.served = TRUE,
                             !.rows = SelectSeq(boardLines, LAMBDA r : r.board_id = f.board)]}
    /\ UNCHANGED <<boardVars, refVars, renderVars, params, load, peachboards, boardLines,
                   issued, inflight, histVars>>
    /\ UNCHANGED pageVars

\* fetchInitialElements after the await: setElements(initialElements)
FetchDone ==
  \E f \in fetches :
    /\ f.served
    /\ elements' = MapRows(f.rows)
    /\ fetches' = fetches \ {f}
    /\ UNCHANGED <<board, loading, error, stageScale, stagePos, zoomInputValue, tool,
                   strokeColor, strokeWidth, refVars, renderVars, params, load, peachboards,
                   boardLines, issued, inflight, gesture, dupSkipped, zooms>>
    /\ UNCHANGED pageVars

\* fetchInitialElements: the select failed
FetchFailed ==
  \E f \in fetches :
    /\ error' = Append(error, "Failed to fetch elements.")
    /\ fetches' = fetches \ {f}
    /\ UNCHANGED <<board, loading, elements, stageScale, stagePos, zoomInputValue, tool,
                   strokeColor, strokeWidth, refVars, renderVars, params, load, peachboards,
                   boardLines, issued, inflight, gesture, dupSkipped, zooms>>
    /\ UNCHANGED pageVars

\* ------------------------------------------------------------------ render
\* (a changed version: the error message does not replace the canvas)
StageShownDespiteError(l, e, b) == ~l /\ b # NoBoard

\* whiteboardContent: the Stage is rendered when the page is not loading, has
\* no error and has a board
StageShown(l, e, b) == ~l /\ e = <<>> /\ b # NoBoard

\* A render commits: handlers and the stage node get the current state, and
\* the effects run: the realtime effect on [board] (cleanup removes the old
\* channel, then a channel is subscribed if a board is loaded).
Commit ==
  /\ rElements' = elements' /\ rBoard' = board' /\ rScale' = stageScale' /\ rPos' = stagePos'
  /\ rShown' = StageShown(loading', error', board')
  /\ channel' = IF rBoard # board' THEN board' ELSE channel

\* the effect on [stageScale]: setZoomInputValue(Math.round(stageScale * 100)
\* .toString()); v is the value the input has otherwise
ZoomEffect(v) ==
  zoomInputValue' = IF rScale # stageScale'
                    THEN [text |-> "", num |-> (stageScale' * 100 + ScaleUnit \div 2) \div ScaleUnit]
                    ELSE v

\* The render React schedules after a continuous event (mousemove, touchmove,
\* wheel) or after the continuation of a request: it runs as a step of its
\* own, so other events can be handled before it.  The updates of a discrete
\* event (mousedown, mouseup, touchstart, touchend, click, change) are
\* rendered before the next event: those handlers end with Commit.
Render ==
  /\ \/ rElements # elements \/ rBoard # board \/ rScale # stageScale \/ rPos # stagePos
     \/ rShown # StageShown(loading, error, board)
  /\ UNCHANGED <<board, loading, error, elements, stageScale, stagePos, tool, strokeColor,
                 strokeWidth, refVars, netVars, histVars>>
  /\ Commit
  /\ ZoomEffect(zoomInputValue)
  /\ UNCHANGED pageVars

\* ----------------------------------------------------------------- backend
\* another client inserts a row with one of the payloads data into board_lines
ForeignInsertOf(data) ==
  /\ Cardinality({i \in 1..Len(boardLines) : boardLines[i].own = 0}) < MaxForeign
  /\ \E b \in BoardIds, d \in data :
       boardLines' = Append(boardLines, [id |-> NextRowId, board_id |-> b,
                                         element_data |-> d, own |-> 0])
  /\ UNCHANGED <<boardVars, refVars, renderVars, params, load, peachboards, fetches, issued,
                 inflight, histVars>>
  /\ UNCHANGED pageVars

\* another client, running this code, inserts a row into board_lines
ForeignInsert == ForeignInsertOf(ForeignData)

\* the insert of saveElementToDb reaches the table
InsertDone ==
  \E i \in inflight :
    /\ boardLines' = Append(boardLines, [id |-> NextRowId, board_id |-> issued[i].board_id,
                                         element_data |-> issued[i].element_data, own |-> i])
    /\ inflight' = inflight \ {i}
    /\ UNCHANGED <<boardVars, refVars, renderVars, params, load, peachboards, fetches, issued,
                   histVars>>
    /\ UNCHANGED pageVars

\* saveElementToDb: the insert failed
InsertFailed ==
  \E i \in inflight :
    /\ error' = Append(error, "Failed to save element.")
    /\ inflight' = inflight \ {i}
    /\ UNCHANGED <<board, loading, elements, stageScale, stagePos, zoomInputValue, tool,
                   strokeColor, strokeWidth, refVars, renderVars, params, load, peachboards,
                   boardLines, fetches, issued, gesture, dupSkipped, zooms>>
    /\ UNCHANGED pageVars

\* a realtime INSERT notification for a row of the subscribed board is
\* delivered (any row, any number of times, in any order)
RealtimeInsert ==
  /\ channel # NoBoard
  /\ \E i \in 1..Len(boardLines) :
       /\ boardLines[i].board_id = channel
       /\ LET new == ReadRealtime(boardLines[i])
          IN /\ elements' = IF new # <<>> THEN MergeRealtime(elements, new[1]) ELSE elements
             /\ dupSkipped' = (dupSkipped \/ (new # <<>> /\ elements' = elements))
  /\ UNCHANGED <<board, loading, error, stageScale, stagePos, zoomInputValue, tool,
                 strokeColor, strokeWidth, refVars, renderVars, netVars, gesture, zooms>>
  /\ UNCHANGED pageVars

\* ------------------------------------------------------------ mouse events
\* (a changed version: the panning flag is left as it is)
StartDrawingKeepingPan == isDrawing' = TRUE /\ UNCHANGED isPanning

\* handleMouseDown (left button) and handleTouchStart (one touch): the flags
StartDrawing == isPanning' = FALSE /\ isDrawing' = TRUE

\* handleMouseDown, button e.evt.button, pointer at p
HandleMouseDown(button, p) ==
  /\ rShown
  /\ IF button = 1
     THEN /\ zooms < MaxZooms /\ zooms' = zooms + 1
          /\ isDrawing' = FALSE /\ isPanning' = TRUE /\ panStartPoint' = p
          /\ panFrom' = stagePos
          /\ UNCHANGED <<elements, drawingStartPoint, gesture, dupSkipped>>
     ELSE IF button = 0
     THEN /\ gesture < MaxGestures
          /\ StartDrawing
          /\ drawingStartPoint' = Rel(p)
          /\ elements' = Append(elements, NewElement(Rel(p), gesture + 1))
          /\ gesture' = gesture + 1 /\ UNCHANGED <<dupSkipped, zooms>>
          /\ UNCHANGED <<panStartPoint, panFrom>>
     ELSE UNCHANGED <<isDrawing, isPanning, panStartPoint, panFrom, elements, drawingStartPoint,
                      gesture, dupSkipped, zooms>>
  /\ UNCHANGED <<board, loading, error, stageScale, stagePos, tool,
                 strokeColor, strokeWidth, lastDist, lastCenter, netVars>>
  /\ Commit
  /\ ZoomEffect(zoomInputValue)
  /\ UNCHANGED pageVars

\* a stroke is not grown beyond MaxPoints points
RoomToMove ==
  (elements # <<>> /\ Last(elements).tool \in {"pen", "eraser"})
     => Len(Last(elements).points) < 2 * MaxPoints

\* handleMouseMove, pointer at p
HandleMouseMove(p) ==
  /\ rShown
  /\ IF ~isDrawing /\ ~isPanning
     THEN UNCHANGED <<elements, stagePos, zooms>>
     ELSE LET point == Rel(p)
              dx == point.x - panStartPoint.x
              dy == point.y - panStartPoint.y
          IN IF isDrawing
             THEN /\ RoomToMove
                  /\ elements' = MoveUpdate(elements, point)
                  /\ UNCHANGED <<stagePos, zooms>>
             ELSE IF isPanning /\ panStartPoint # NoPoint
             THEN /\ zooms < MaxZooms /\ zooms' = zooms + 1
                  /\ stagePos' = [x |-> point.x - (point.x - rPos.x - dx),
                                  y |-> point.y - (point.y - rPos.y - dy)]
                  /\ UNCHANGED elements
             ELSE UNCHANGED <<elements, stagePos, zooms>>
  /\ UNCHANGED <<board, loading, error, stageScale, zoomInputValue, tool, strokeColor,
                 strokeWidth, refVars, renderVars, netVars, gesture, dupSkipped>>
  /\ UNCHANGED pageVars

\* handleMouseUp
HandleMouseUp ==
  /\ rShown
  /\ IF ~isDrawing /\ ~isPanning
     THEN UNCHANGED <<isDrawing, isPanning, elements, issued, inflight>>
     ELSE IF isDrawing
     THEN /\ isDrawing' = FALSE
          /\ SaveElementToDb
          /\ UNCHANGED isPanning
     ELSE /\ isPanning' = FALSE
          /\ UNCHANGED <<isDrawing, elements, issued, inflight>>
  /\ UNCHANGED <<board, loading, error, stageScale, stagePos, tool,
                 strokeColor, strokeWidth, lastDist, lastCenter, panStartPoint, panFrom,
                 drawingStartPoint, params, load, peachboards, boardLines,
                 fetches, gesture, dupSkipped, zooms>>
  /\ Commit
  /\ ZoomEffect(zoomInputValue)
  /\ UNCHANGED pageVars

\* ------------------------------------------------------------ touch events
\* handleTouchStart with n touches; p is the pointer position of the stage,
\* t1 and t2 are the client positions of the first two touches
HandleTouchStart(n, p, t1, t2) ==
  /\ rShown
  /\ IF n = 1
     THEN /\ gesture < MaxGestures
          /\ StartDrawing
          /\ drawingStartPoint' = Rel(p)
          /\ elements' = Append(elements, NewElement(Rel(p), gesture + 1))
          /\ gesture' = gesture + 1 /\ UNCHANGED <<dupSkipped, zooms>>
          /\ UNCHANGED <<lastDist, lastCenter, panStartPoint, panFrom>>
     ELSE IF n >= 2
     THEN /\ zooms < MaxZooms /\ zooms' = zooms + 1
          /\ isDrawing' = FALSE /\ isPanning' = TRUE
          /\ lastDist' = getDistance(t1, t2)
          /\ lastCenter' = getCenter(t1, t2)
          /\ panStartPoint' = getCenter(t1, t2) /\ panFrom' = NoPoint
          /\ UNCHANGED <<drawingStartPoint, elements, gesture, dupSkipped>>
     ELSE UNCHANGED <<refVars, elements, gesture, dupSkipped, zooms>>
  /\ UNCHANGED <<board, loading, error, stageScale, stagePos, tool,
                 strokeColor, strokeWidth, netVars>>
  /\ Commit
  /\ ZoomEffect(zoomInputValue)
  /\ UNCHANGED pageVars

\* handleTouchMove with n touches
HandleTouchMove(n, p, t1, t2) ==
  /\ rShown
  /\ IF n = 1 /\ isDrawing
     THEN /\ RoomToMove
          /\ elements' = MoveUpdate(elements, Rel(p))
          /\ UNCHANGED <<stageScale, stagePos, lastDist, panStartPoint, panFrom, zooms>>
     ELSE IF n >= 2 /\ isPanning /\ panStartPoint # NoPoint
     THEN LET newCenter == getCenter(t1, t2)
              newDist == getDistance(t1, t2)
              dx == newCenter.x - panStartPoint.x
              dy == newCenter.y - panStartPoint.y
              movedPos == [x |-> rPos.x + dx, y |-> rPos.y + dy]
              newScale == IF lastDist > 0 THEN Clamp((rScale * newDist) \div lastDist)
                          ELSE rScale
              mousePointTo == [x |-> ((newCenter.x - movedPos.x) * ScaleUnit) \div rScale,
                               y |-> ((newCenter.y - movedPos.y) * ScaleUnit) \div rScale]
              newPos == IF lastDist > 0
                        THEN [x |-> newCenter.x - (mousePointTo.x * newScale) \div ScaleUnit,
                              y |-> newCenter.y - (mousePointTo.y * newScale) \div ScaleUnit]
                        ELSE movedPos
          IN /\ zooms < MaxZooms /\ zooms' = zooms + 1
             /\ stageScale' = newScale /\ stagePos' = newPos
             /\ lastDist' = newDist /\ panStartPoint' = newCenter /\ panFrom' = NoPoint
             /\ UNCHANGED elements
     ELSE UNCHANGED <<elements, stageScale, stagePos, lastDist, panStartPoint, panFrom,
                      zooms>>
  /\ UNCHANGED <<board, loading, error, zoomInputValue, tool, strokeColor, strokeWidth,
                 isDrawing, isPanning, lastCenter, drawingStartPoint, renderVars, netVars,
                 gesture, dupSkipped>>
  /\ UNCHANGED pageVars

\* handleTouchEnd
HandleTouchEnd ==
  /\ rShown
  /\ isDrawing' = FALSE /\ lastDist' = 0 /\ lastCenter' = NoPoint
  /\ IF isDrawing THEN SaveElementToDb ELSE UNCHANGED <<elements, issued, inflight>>
  /\ UNCHANGED <<board, loading, error, stageScale, stagePos, tool,
                 strokeColor, strokeWidth, isPanning, panStartPoint, panFrom,
                 drawingStartPoint,
                 params, load, peachboards, boardLines, fetches, gesture, dupSkipped, zooms>>
  /\ Commit
  /\ ZoomEffect(zoomInputValue)
  /\ UNCHANGED pageVars

\* ------------------------------------------------------------------- zoom
\* handleWheel: e.evt.deltaY, pointer at p
HandleWheel(deltaY, p) ==
  /\ rShown
  /\ zooms < MaxZooms /\ zooms' = zooms + 1
  /\ LET oldScale == rScale
         mousePointTo == [x |-> ((p.x - rPos.x) * ScaleUnit) \div oldScale,
                          y |-> ((p.y - rPos.y) * ScaleUnit) \div oldScale]
         direction == IF deltaY > 0 THEN -1 ELSE 1
         newScale == Clamp(IF direction > 0 THEN (oldScale * 105) \div 100
                           ELSE (oldScale * 100) \div 105)
     IN /\ stageScale' = newScale
        /\ stagePos' = [x |-> p.x - (mousePointTo.x * newScale) \div ScaleUnit,
                        y |-> p.y - (mousePointTo.y * newScale) \div ScaleUnit]
  /\ UNCHANGED <<board, loading, error, elements, zoomInputValue, tool, strokeColor,
                 strokeWidth, refVars, renderVars, netVars, gesture, dupSkipped>>
  /\ UNCHANGED pageVars

\* parseFloat of what can be typed into the zoom input: nan, or the number
ParseFloat(value) ==
  CASE value = "-50" -> [nan |-> FALSE, n |-> -50]
    [] value = "0" -> [nan |-> FALSE, n |-> 0]
    [] value = "1" -> [nan |-> FALSE, n |-> 1]
    [] value = "50" -> [nan |-> FALSE, n |-> 50]
    [] value = "250" -> [nan |-> FALSE, n |-> 250]
    [] value = "1000" -> [nan |-> FALSE, n |-> 1000]
    [] OTHER -> [nan |-> TRUE, n |-> 0]
ZoomInputs == {"", "-50", "0", "1", "50", "250", "1000"}
\* the size of the stage container
StageSize == [width |-> 2 * MaxCoord, height |-> 2 * MaxCoord]

\* handleZoomInputChange: e.target.value
HandleZoomInputChange(value) ==
  /\ zooms < MaxZooms /\ zooms' = zooms + 1
  /\ LET percentage == ParseFloat(value)
         newScale == Clamp(percentage.n * (ScaleUnit \div 100))
         center == [x |-> StageSize.width \div 2, y |-> StageSize.height \div 2]
         oldScale == rScale
         mousePointTo == [x |-> ((center.x - rPos.x) * ScaleUnit) \div oldScale,
                          y |-> ((center.y - rPos.y) * ScaleUnit) \div oldScale]
     IN IF ~percentage.nan /\ percentage.n > 0 /\ rShown
        THEN /\ stageScale' = newScale
             /\ stagePos' = [x |-> center.x - (mousePointTo.x * newScale) \div ScaleUnit,
                             y |-> center.y - (mousePointTo.y * newScale) \div ScaleUnit]
        ELSE UNCHANGED <<stageScale, stagePos>>
  /\ UNCHANGED <<board, loading, error, elements, tool, strokeColor, strokeWidth, refVars,
                 netVars, gesture, dupSkipped>>
  /\ Commit
  /\ ZoomEffect([text |-> value, num |-> 0])
  /\ UNCHANGED pageVars

\* ---------------------------------------------------------------- toolbar
SetTool(t) ==
  /\ tool' = t
  /\ UNCHANGED <<board, loading, error, elements, stageScale, stagePos,
                 strokeColor, strokeWidth, refVars, netVars, histVars>>
  /\ Commit
  /\ ZoomEffect(zoomInputValue)
  /\ UNCHANGED pageVars

\* ------------------------------------------------- navigation and services
\* navigate(path) while the requests in flight are rest: the element of the
\* matching route is rendered; an element of another type is mounted as
\* constructed and its mount effect sends its request
Go(path, rest) ==
  /\ location' = path
  /\ IF RouteElement(path) = page
     THEN /\ UNCHANGED <<page, inst, dashVars, ncalls>>
          /\ calls' = rest
     ELSE /\ page' = RouteElement(path) /\ inst' = inst + 1
          /\ newBoardName' = "" /\ userId' = NoUser /\ dashLoading' = FALSE
          /\ dashError' = "" /\ boards' = <<>> /\ fetchLoading' = FALSE
          /\ fetchError' = "" /\ actionLoading' = NoBoard /\ actionError' = ""
          /\ rename' = NoRename /\ fetched' = NoFetch
          /\ calls' = rest \cup MountCalls(RouteElement(path), inst + 1, ncalls + 1)
          /\ ncalls' = ncalls + Cardinality(MountCalls(RouteElement(path), inst + 1, ncalls + 1))

\* rows of peachboards in the order of creation, newest first
RECURSIVE OrderDesc(_)
OrderDesc(rows) ==
  IF rows = {} THEN <<>>
  ELSE LET newest == CHOOSE r \in rows : \A q \in rows : q.id <= r.id
       IN <<newest>> \o OrderDesc(rows \ {newest})

\* the id the table gives the next row
NextBoardId ==
  LET used == BoardIds \cup {created[k].row : k \in 1..Len(created)}
  IN 1 + CHOOSE m \in used : \A n \in used : n <= m

\* The service handles request c, successfully or not: an insert adds the
\* row, a delete removes it, an update renames it, a select reads the owner's
\* rows, signOut ends the session, getUser and getSession read it.
ServeCall(c, ok) ==
  /\ c \in calls /\ ~c.served
  /\ IF ok THEN UNCHANGED ops ELSE ops < MaxOps /\ ops' = ops + 1
  /\ peachboards' =
       IF c.op = "insert" /\ ok
       THEN peachboards \cup {[id |-> NextBoardId, name |-> c.name,
                               share_link_id |-> 10 + NextBoardId, owner_id |-> c.owner]}
       ELSE IF c.op = "delete" /\ ok
       THEN {r \in peachboards : r.id # c.row}
       ELSE IF c.op = "update" /\ ok
       THEN {IF r.id = c.row THEN [r EXCEPT !.name = c.name] ELSE r : r \in peachboards}
       ELSE peachboards
  /\ created' = IF c.op = "insert" /\ ok
                THEN Append(created, [row |-> NextBoardId, typed |-> c.typed, by |-> c.by,
                                      name |-> c.name, owner |-> c.owner])
                ELSE created
  /\ session' = IF c.op = "signOut" /\ ok THEN NoUser ELSE session
  /\ calls' = (calls \ {c}) \cup
       {[c EXCEPT !.served = TRUE, !.ok = ok,
                  !.row = IF c.op = "insert" /\ ok THEN NextBoardId ELSE c.row,
                  !.rows = IF c.op = "select" /\ ok
                           THEN OrderDesc({r \in peachboards : r.owner_id = c.owner})
                           ELSE <<>>,
                  !.user = IF c.op \in {"getUser", "getSession"} /\ ok
                           THEN session ELSE NoUser]}
  /\ UNCHANGED <<location, page, inst, dashVars, ncalls, viewVars>>

\* the auth service drops the session; on the login page the auth listener
\* navigates to /login
Expire ==
  /\ session # NoUser /\ ops < MaxOps /\ ops' = ops + 1
  /\ session' = NoUser
  /\ IF page = "LoginPage" THEN Go(LoginPath, calls)
     ELSE UNCHANGED <<location, page, inst, dashVars, calls, ncalls>>
  /\ UNCHANGED <<created, peachboards, viewVars>>

\* ---------------------------------------------------------------- LoginPage
\* the continuation of getSession of the mount effect
LoginSessionDone(c) ==
  /\ c \in calls /\ c.served /\ c.op = "getSession"
  /\ IF c.user # NoUser THEN Go(DashboardPath, calls \ {c})
     ELSE /\ calls' = calls \ {c}
          /\ UNCHANGED <<location, page, inst, dashVars, ncalls>>
  /\ UNCHANGED <<session, ops, created, peachboards, viewVars>>

\* the user signs in with the form: the auth listener navigates to /dashboard
SignIn ==
  /\ page = "LoginPage" /\ session = NoUser
  /\ ops < MaxOps /\ ops' = ops + 1
  /\ session' = 1
  /\ Go(DashboardPath, calls)
  /\ UNCHANGED <<created, peachboards, viewVars>>

\* ------------------------------------------------------------ DashboardPage
\* fetchBoards(currentUserId) up to its await, called by a continuation of
\* page instance i while the other requests in flight are rest; after is the
\* row whose creation is the reason of the call
FetchBoards(currentUserId, after, i, rest) ==
  /\ calls' = rest \cup {[NewCall(ncalls + 1, "select", i) EXCEPT !.owner = currentUserId,
                                                      !.after = after]}
  /\ ncalls' = ncalls + 1
  /\ IF i = inst
     THEN /\ fetchLoading' = TRUE /\ fetchError' = ""
          /\ fetched' = [NoFetch EXCEPT !.id = ncalls + 1]
     ELSE UNCHANGED <<fetchLoading, fetchError, fetched>>

\* fetchBoards after its await
FetchBoardsDone(c) ==
  /\ c \in calls /\ c.served /\ c.op = "select"
  /\ calls' = calls \ {c}
  /\ IF c.inst # inst
     THEN UNCHANGED <<boards, fetchError, fetchLoading, fetched>>
     ELSE /\ boards' = IF c.ok THEN c.rows ELSE <<>>
          /\ fetchError' = IF c.ok THEN fetchError ELSE "Failed to fetch boards"
          /\ fetchLoading' = FALSE
          /\ fetched' = IF c.id = fetched.id
                        THEN [fetched EXCEPT !.done = TRUE, !.ok = c.ok, !.rows = c.rows]
                        ELSE fetched
  /\ UNCHANGED <<appVars, newBoardName, userId, dashLoading, dashError, actionLoading,
                 actionError, rename, ncalls, ops, created, peachboards, viewVars>>

\* initialize of the mount effect after its await
InitializeDone(c) ==
  /\ c \in calls /\ c.served /\ c.op = "getUser"
  /\ IF c.user # NoUser
     THEN /\ userId' = IF c.inst = inst THEN c.user ELSE userId
          /\ FetchBoards(c.user, NoBoard, c.inst, calls \ {c})
          /\ UNCHANGED <<location, page, inst, newBoardName, dashLoading, dashError, boards,
                         actionLoading, actionError, rename>>
     ELSE Go(LoginPath, calls \ {c})
  /\ UNCHANGED <<session, ops, created, peachboards, viewVars>>

\* handleLogout up to its await
HandleLogout ==
  /\ page = "DashboardPage"
  /\ ops < MaxOps /\ ops' = ops + 1
  /\ calls' = calls \cup {NewCall(ncalls + 1, "signOut", inst)}
  /\ ncalls' = ncalls + 1
  /\ UNCHANGED <<appVars, dashVars, created, peachboards, viewVars>>

\* handleLogout after its await
LogoutDone(c) ==
  /\ c \in calls /\ c.served /\ c.op = "signOut"
  /\ IF c.ok THEN Go(LoginPath, calls \ {c})
     ELSE /\ calls' = calls \ {c}
          /\ UNCHANGED <<location, page, inst, dashVars, ncalls>>
  /\ UNCHANGED <<session, ops, created, peachboards, viewVars>>

\* onChange of the board name input
SetNewBoardName(value) ==
  /\ page = "DashboardPage" /\ ~dashLoading
  /\ newBoardName' = value
  /\ UNCHANGED <<appVars, userId, dashLoading, dashError, boards, fetchLoading,
                 fetchError, actionLoading, actionError, rename, fetched, callVars,
                 peachboards, viewVars>>

\* (a changed version: the name is inserted as typed)
InsertPayloadAsTyped(name, owner) == [name |-> name, owner_id |-> owner]

\* the row handleCreateBoard inserts (the share link id is made by the table)
InsertPayload(name, owner) == [name |-> Trim(name), owner_id |-> owner]

\* (a changed version: only the name is tested)
CreateRefusalNameOnly(name, user) ==
  IF Trim(name) = "" THEN "Board name cannot be empty." ELSE ""

\* handleCreateBoard: the message its guard clauses return with ("": none)
CreateRefusal(name, user) ==
  IF Trim(name) = "" THEN "Board name cannot be empty."
  ELSE IF user = NoUser THEN "User not identified. Please log in again."
  ELSE ""

\* handleCreateBoard up to its await
HandleCreateBoard ==
  /\ page = "DashboardPage"
  /\ ops < MaxOps /\ ops' = ops + 1
  /\ IF CreateRefusal(newBoardName, userId) # ""
     THEN /\ dashError' = CreateRefusal(newBoardName, userId)
          /\ UNCHANGED <<dashLoading, calls, ncalls>>
     ELSE /\ dashLoading' = TRUE /\ dashError' = ""
          /\ calls' = calls \cup
               {[NewCall(ncalls + 1, "insert", inst) EXCEPT
                   !.name = InsertPayload(newBoardName, userId).name,
                   !.owner = InsertPayload(newBoardName, userId).owner_id,
                   !.typed = newBoardName, !.by = userId]}
          /\ ncalls' = ncalls + 1
  /\ UNCHANGED <<appVars, newBoardName, userId, boards, fetchLoading, fetchError,
                 actionLoading, actionError, rename, fetched, created, peachboards,
                 viewVars>>

\* a click on the create button (it is disabled while a board is created and
\* while the trimmed name is empty)
ClickCreateBoard ==
  /\ ~dashLoading /\ Trim(newBoardName) # ""
  /\ HandleCreateBoard

\* handleCreateBoard after its await
CreateBoardDone(c) ==
  /\ c \in calls /\ c.served /\ c.op = "insert"
  /\ IF c.ok
     THEN /\ newBoardName' = IF c.inst = inst THEN "" ELSE newBoardName
          /\ FetchBoards(c.owner, c.row, c.inst, calls \ {c})
          /\ UNCHANGED dashError
     ELSE /\ dashError' = IF c.inst = inst THEN "Failed to create board" ELSE dashError
          /\ calls' = calls \ {c}
          /\ UNCHANGED <<newBoardName, fetchLoading, fetchError, fetched, ncalls>>
  /\ dashLoading' = IF c.inst = inst THEN FALSE ELSE dashLoading
  /\ UNCHANGED <<appVars, userId, boards, actionLoading, actionError, rename, ops,
                 created, peachboards, viewVars>>

\* the rows the list shows with their buttons
Listed == IF ~fetchLoading /\ fetchError = "" THEN {boards[k].id : k \in 1..Len(boards)} ELSE {}

\* handleDeleteBoard(boardId) up to its await, the dialog confirmed (the
\* button is disabled while a board is renamed and while the board is the one
\* of the action-loading marker)
HandleDeleteBoard(boardId) ==
  /\ page = "DashboardPage" /\ boardId \in Listed
  /\ rename.id = NoBoard /\ actionLoading # boardId
  /\ ops < MaxOps /\ ops' = ops + 1
  /\ actionLoading' = boardId /\ actionError' = ""
  /\ calls' = calls \cup {[NewCall(ncalls + 1, "delete", inst) EXCEPT !.row = boardId, !.owner = userId]}
  /\ ncalls' = ncalls + 1
  /\ UNCHANGED <<appVars, newBoardName, userId, dashLoading, dashError, boards,
                 fetchLoading, fetchError, rename, fetched, created, peachboards, viewVars>>

\* handleDeleteBoard after its await
DeleteBoardDone(c) ==
  /\ c \in calls /\ c.served /\ c.op = "delete"
  /\ IF c.ok /\ c.owner # NoUser
     THEN /\ FetchBoards(c.owner, NoBoard, c.inst, calls \ {c})
          /\ UNCHANGED actionError
     ELSE /\ actionError' = IF c.inst = inst /\ ~c.ok THEN "Failed to delete board"
                            ELSE actionError
          /\ calls' = calls \ {c}
          /\ UNCHANGED <<fetchLoading, fetchError, fetched, ncalls>>
  /\ actionLoading' = IF c.inst = inst THEN NoBoard ELSE actionLoading
  /\ UNCHANGED <<appVars, newBoardName, userId, dashLoading, dashError, boards, rename,
                 ops, created, peachboards, viewVars>>

\* ------------------------------------------------------- renaming a board
MAX_NAME_LENGTH == 100
\* a name of 101 characters
LongName ==
  "aaaaaaaaaaaaaaaaaaaaaaaaaaaaaaaaaaaaaaaaaaaaaaaaaaaaaaaaaaaaaaaaaaaaaaaaaaaaaaaaaaaaaaaaaaaaaaaaaaaaa"
\* what can be typed into the rename input
RenameValues == {"", " ", "b", LongName}

\* the row of the list whose rename input and buttons are rendered and enabled
RenameShown == rename.id \in Listed /\ actionLoading # rename.id

\* handleStartRename(board.id, board.name) for entry k of the list (the button
\* is disabled while a board is renamed and while the board is the one of the
\* action-loading marker)
HandleStartRename(k) ==
  /\ page = "DashboardPage" /\ k \in 1..Len(boards) /\ boards[k].id \in Listed
  /\ rename.id = NoBoard /\ actionLoading # boards[k].id
  /\ ops < MaxOps /\ ops' = ops + 1
  /\ rename' = [id |-> boards[k].id, value |-> boards[k].name]
  /\ actionError' = ""
  /\ UNCHANGED <<appVars, newBoardName, userId, dashLoading, dashError, boards,
                 fetchLoading, fetchError, actionLoading, fetched, calls, ncalls, created,
                 peachboards, viewVars>>

\* onChange of the rename input
SetRenameValue(value) ==
  /\ page = "DashboardPage" /\ RenameShown /\ value # rename.value
  /\ rename' = [rename EXCEPT !.value = value]
  /\ UNCHANGED <<appVars, newBoardName, userId, dashLoading, dashError, boards,
                 fetchLoading, fetchError, actionLoading, actionError, fetched, callVars,
                 peachboards, viewVars>>

\* handleCancelRename
HandleCancelRename ==
  /\ page = "DashboardPage" /\ RenameShown
  /\ ops < MaxOps /\ ops' = ops + 1
  /\ rename' = NoRename
  /\ UNCHANGED <<appVars, newBoardName, userId, dashLoading, dashError, boards,
                 fetchLoading, fetchError, actionLoading, actionError, fetched, calls,
                 ncalls, created, peachboards, viewVars>>

\* (a changed version: only an empty name is refused)
RenameRefusalEmptyOnly(id, value) ==
  IF id = NoBoard \/ Trim(value) = "" THEN "Board name cannot be empty." ELSE ""

\* handleConfirmRename: the message its guard clauses return with ("": none)
RenameRefusal(id, value) ==
  IF id = NoBoard \/ Trim(value) = "" THEN "Board name cannot be empty."
  ELSE IF Len(Trim(value)) > MAX_NAME_LENGTH THEN "Board name cannot exceed 100 characters."
  ELSE ""

\* handleConfirmRename up to its await, called by the save button or by the
\* Enter key in the rename input
HandleConfirmRename ==
  /\ page = "DashboardPage" /\ RenameShown
  /\ ops < MaxOps /\ ops' = ops + 1
  /\ IF RenameRefusal(rename.id, rename.value) # ""
     THEN /\ actionError' = RenameRefusal(rename.id, rename.value)
          /\ UNCHANGED <<actionLoading, calls, ncalls>>
     ELSE /\ actionLoading' = rename.id /\ actionError' = ""
          /\ calls' = calls \cup
               {[NewCall(ncalls + 1, "update", inst) EXCEPT
                   !.row = rename.id, !.name = Trim(rename.value), !.owner = userId]}
          /\ ncalls' = ncalls + 1
  /\ UNCHANGED <<appVars, newBoardName, userId, dashLoading, dashError, boards,
                 fetchLoading, fetchError, rename, fetched, created, peachboards, viewVars>>

\* handleConfirmRename after its await
ConfirmRenameDone(c) ==
  /\ c \in calls /\ c.served /\ c.op = "update"
  /\ IF c.ok
     THEN /\ rename' = IF c.inst = inst THEN NoRename ELSE rename
          /\ IF c.owner # NoUser
             THEN FetchBoards(c.owner, NoBoard, c.inst, calls \ {c})
             ELSE /\ calls' = calls \ {c}
                  /\ UNCHANGED <<fetchLoading, fetchError, fetched, ncalls>>
          /\ UNCHANGED actionError
     ELSE /\ actionError' = IF c.inst = inst THEN "Failed to rename board" ELSE actionError
          /\ calls' = calls \ {c}
          /\ UNCHANGED <<rename, fetchLoading, fetchError, fetched, ncalls>>
  /\ actionLoading' = IF c.inst = inst THEN NoBoard ELSE actionLoading
  /\ UNCHANGED <<appVars, newBoardName, userId, dashLoading, dashError, boards, ops,
                 created, peachboards, viewVars>>

\* ------------------------------------------------- the board view, drawing
Origin == [x |-> 0, y |-> 0]

\* Drawing on an open board with the mouse or one finger while rows arrive
\* and requests complete.  The tool is chosen between gestures.  (Pan, pinch
\* and zoom are exercised by SpecZoom.)
Next ==
  \/ FetchBoardDetails
  \/ BoardFound
  \/ BoardNotFound
  \/ FetchServe
  \/ FetchDone
  \/ FetchFailed
  \/ Render
  \/ ForeignInsert
  \/ InsertDone
  \/ InsertFailed
  \/ RealtimeInsert
  \/ \E t \in Tools : ~isDrawing /\ gesture < MaxGestures /\ SetTool(t)
  \/ \E p \in Pts : HandleMouseDown(0, p)
  \/ \E p \in Pts : HandleMouseMove(p)
  \/ HandleMouseUp
  \/ \E p \in Pts : HandleTouchStart(1, p, p, p)
  \/ \E p \in Pts : HandleTouchMove(1, p, p, p)
  \/ HandleTouchEnd

Init == InitOn({ById(1), ById(9)})

Spec == Init /\ [][Next]_vars

\* ------------------------------------------------- properties of the list
IsStroke(e) == e.tool \in {"pen", "eraser"}
\* positions in the list of the element the current gesture's pointer-down appended
Own == {i \in 1..Len(elements) : gesture > 0 /\ elements[i].g = gesture}
\* a pointer-up or touch-end
UpEvent == HandleMouseUp \/ HandleTouchEnd
\* any mouse or touch event of the drawing surface
PointerEvent ==
  \/ \E p \in Pts : HandleMouseDown(0, p) \/ HandleMouseMove(p)
  \/ \E p \in Pts : HandleTouchStart(1, p, p, p) \/ HandleTouchMove(1, p, p, p)
  \/ UpEvent
\* a stroke with fewer than two points, a rectangle or a circle without extent
Degenerate(e) ==
  \/ IsStroke(e) /\ Len(e.points) < 4
  \/ e.tool = "rectangle" /\ (e.width = 0 \/ e.height = 0)
  \/ e.tool = "circle" /\ e.radius = 0

\* C1: the list never holds two entries with the same defined id, whatever
\* the order of the initial fetch, the notifications (also repeated ones) and
\* the pointer events.
C1_UniqueIds ==
  \A i, j \in 1..Len(elements) :
    (i # j /\ elements[i].id # NoId) => elements[i].id # elements[j].id

\* C1 happens: a notification was dropped as a duplicate while the list also
\* holds an element drawn here and one read from a row.
C1_Witness ==
  /\ dupSkipped
  /\ \E i, j \in 1..Len(elements) : elements[i].id # NoId /\ elements[j].id = NoId

\* C2: no insert is issued for a pen or eraser stroke with fewer than two
\* points: every stroke payload sent has at least 4 numbers, and a stroke of
\* the list with fewer is the source of no insert.
C2_ShortStrokeNotSaved ==
  /\ \A k \in 1..Len(issued) :
       IsStroke(issued[k].element_data) => Len(issued[k].element_data.points) >= 4
  /\ \A i \in 1..Len(elements) :
       (elements[i].g # 0 /\ IsStroke(elements[i]) /\ Len(elements[i].points) < 4)
          => \A k \in 1..Len(issued) : issued[k].from.g # elements[i].g

\* C2 happens: a pen or eraser gesture has ended with a single point recorded
\* and nothing was sent.
C2_Witness ==
  /\ gesture > 0 /\ ~isDrawing /\ issued = <<>>
  /\ \E i \in Own : IsStroke(elements[i]) /\ Len(elements[i].points) = 2

\* C7: a pointer event leaves every element that has an id in the list,
\* unmodified.
C7_IdentifiedImmutable ==
  [][PointerEvent =>
       \A i \in 1..Len(elements) :
         elements[i].id # NoId => \E j \in 1..Len(elements') : elements'[j] = elements[i]]_vars

\* C8: a pointer-up or touch-end that ends a non-degenerate gesture issues
\* exactly one insert, whose payload is the gesture's own element (here even
\* with the handler created by a render that has seen the current list).
C8_SavesOwnElement ==
  [][(UpEvent /\ isDrawing /\ rElements = elements /\ rBoard = board)
       => \A i \in Own :
            ~Degenerate(elements[i])
              => /\ Len(issued') = Len(issued) + 1
                 /\ issued'[Len(issued')].element_data
                      = SaveDecision(board, <<elements[i]>>).data]_vars

\* C9: a pointer-up or touch-end that ends a gesture whose element is
\* degenerate issues no insert and removes that element from the list.
C9_DegenerateDiscarded ==
  [][(UpEvent /\ isDrawing /\ rElements = elements /\ rBoard = board)
       => \A i \in Own :
            Degenerate(elements[i])
              => /\ issued' = issued
                 /\ \A j \in 1..Len(elements') : elements'[j].g # gesture]_vars

\* --------------------------------------------------- dragging rectangles
\* pointer positions of the rectangle drags: a full grid
Grid == [x : 0..(2 * MaxCoord), y : 0..(2 * MaxCoord)]

\* One client drags rectangles over the grid in every direction; the rows
\* come back as notifications.
NextRect ==
  \/ FetchBoardDetails
  \/ BoardFound
  \/ FetchServe
  \/ FetchDone
  \/ Render
  \/ InsertDone
  \/ RealtimeInsert
  \/ tool = "pen" /\ SetTool("rectangle")
  \/ \E p \in Grid : tool = "rectangle" /\ HandleMouseDown(0, p)
  \/ \E p \in Grid : HandleMouseMove(p)
  \/ HandleMouseUp
  \/ \E p \in Grid : tool = "rectangle" /\ HandleTouchStart(1, p, p, p)
  \/ \E p \in Grid : HandleTouchMove(1, p, p, p)
  \/ HandleTouchEnd

SpecRect == InitOn({ById(1)}) /\ [][NextRect]_vars

\* the element a reader builds from a payload
AsElement(d) == ElementOf([id |-> 1, board_id |-> 1, element_data |-> d, own |-> 0])

\* C3: the payload saved for a rectangle with signed non-zero width w and
\* height h has width |w|, height |h| and origin (min(x, x+w), min(y, y+h));
\* rendered, it covers the region the dragged rectangle was rendered on; and
\* normalizing the saved rectangle again changes nothing.
C3_RectangleNormalized ==
  \A k \in 1..Len(issued) :
    LET e == issued[k].from
        d == issued[k].element_data
    IN e.tool = "rectangle" =>
         /\ d.width = Abs(e.width) /\ d.height = Abs(e.height)
         /\ d.width > 0 /\ d.height > 0
         /\ d.x = Min(e.x, e.x + e.width) /\ d.y = Min(e.y, e.y + e.height)
         /\ RenderRect(AsElement(d)) = RenderRect(e)
         /\ NormalizeRect(AsElement(d)) = d

\* C3 happens: rectangles dragged up-left and dragged down-left were saved.
C3_Witness ==
  \E k \in 1..Len(issued) :
    /\ issued[k].from.tool = "rectangle"
    /\ issued[k].from.width < 0 /\ issued[k].from.height > 0
    /\ issued[k].element_data.x < issued[k].from.x

\* ------------------------------------------------------- zooming, panning
\* client positions of the second finger of a pinch (the first rests at Origin)
TouchPts == {[x |-> 0, y |-> 0], [x |-> MaxCoord, y |-> 0], [x |-> 4 * MaxCoord, y |-> 0]}
\* pointer positions of wheel and middle-button events
WheelPts == {Origin, [x |-> MaxCoord, y |-> MaxCoord]}
\* e.evt.deltaY of wheel events
Deltas == {-100, 0, 100}

\* One client zooms with the wheel, the zoom input and two fingers and pans
\* with the middle button, on a board that is open.
NextZoom ==
  \/ FetchBoardDetails
  \/ BoardFound
  \/ FetchServe
  \/ FetchDone
  \/ Render
  \/ \E d \in Deltas, p \in WheelPts : HandleWheel(d, p)
  \/ \E v \in ZoomInputs : HandleZoomInputChange(v)
  \/ \E t \in TouchPts : HandleTouchStart(2, Origin, Origin, t)
  \/ \E t \in TouchPts : HandleTouchMove(2, Origin, Origin, t)
  \/ HandleTouchEnd
  \/ \E p \in WheelPts : HandleMouseDown(1, p)
  \/ \E p \in WheelPts : HandleMouseMove(p)
  \/ HandleMouseUp

SpecZoom == InitOn({ById(1)}) /\ [][NextZoom]_vars

\* a value of the zoom input that is not a positive number
NotPositive(v) == ParseFloat(v).nan \/ ParseFloat(v).n <= 0

\* C4: from scale 1, after any wheel events, pinch moves and zoom input
\* changes, the stage scale lies in [0.02, 8.0]; and a zoom input value that
\* is not a positive number leaves the scale unchanged.
C4_ScaleInRange ==
  [][/\ MIN_SCALE <= stageScale' /\ stageScale' <= MAX_SCALE
     /\ \A v \in ZoomInputs :
          (NotPositive(v) /\ HandleZoomInputChange(v)) => stageScale' = stageScale]_vars

\* C4 happens: the scale was driven to its upper limit, stayed there through a
\* wheel step or a pinch, and then a negative value was typed into the input.
C4_Witness ==
  /\ stageScale = MAX_SCALE /\ rScale = MAX_SCALE
  /\ zooms >= 3
  /\ zoomInputValue.text = "-50"

\* C10: after any mouse-up or touch-end neither the drawing flag nor the
\* panning flag is set.
C10_IdleAfterUp ==
  [][UpEvent => (~isDrawing' /\ ~isPanning')]_vars

\* --------------------------------------------------- opening the application
\* A visitor, signed in or not, opens a path; the pages load, redirect, and
\* the visitor signs in and out.
InitApp ==
  /\ BoardFresh
  /\ location \in Urls /\ page = RouteElement(location) /\ inst = 1
  /\ session \in {NoUser, 1}
  /\ params = RouteParams(location)
  /\ load = IF page = "BoardPage" THEN "mounted" ELSE "none"
  /\ peachboards = {BoardRow(b) : b \in BoardIds}
  /\ DashFresh /\ AuthFresh
  /\ calls = MountCalls(page, 1, 1)
  /\ ncalls = Cardinality(calls) /\ ops = 0 /\ created = <<>>

NextApp ==
  \/ \E c \in calls, ok \in BOOLEAN : ServeCall(c, ok)
  \/ Expire
  \/ \E c \in calls : LoginSessionDone(c)
  \/ SignIn
  \/ \E c \in calls : InitializeDone(c)
  \/ \E c \in calls : FetchBoardsDone(c)
  \/ HandleLogout
  \/ \E c \in calls : LogoutDone(c)
  \/ FetchBoardDetails
  \/ BoardFound
  \/ BoardNotFound
  \/ FetchServe
  \/ FetchDone
  \/ FetchFailed
  \/ Render

SpecApp == InitApp /\ [][NextApp]_vars

\* C5: a visitor with no session is never shown the board page.
C5_NoSessionNoBoardPage ==
  session = NoUser => page # "BoardPage"

\* ------------------------------------------------------------ the dashboard
\* A signed-in user has the dashboard open, creates boards and deletes them.
InitDash ==
  /\ BoardFresh
  /\ location = DashboardPath /\ page = "DashboardPage" /\ inst = 1 /\ session = 1
  /\ params = RouteParams(location) /\ load = "none"
  /\ peachboards = {BoardRow(b) : b \in BoardIds}
  /\ DashFresh /\ AuthFresh
  /\ calls = MountCalls(page, 1, 1)
  /\ ncalls = 1 /\ ops = 0 /\ created = <<>>

NextDash ==
  \/ \E c \in calls, ok \in BOOLEAN : ServeCall(c, ok)
  \/ \E c \in calls : LoginSessionDone(c)
  \/ \E c \in calls : InitializeDone(c)
  \/ \E c \in calls : FetchBoardsDone(c)
  \/ \E v \in Names : SetNewBoardName(v)
  \/ ClickCreateBoard
  \/ \E c \in calls : CreateBoardDone(c)
  \/ \E b \in 1..(2 + MaxOps) : HandleDeleteBoard(b)
  \/ \E c \in calls : DeleteBoardDone(c)

SpecDash == InitDash /\ [][NextDash]_vars

\* every row created has the trimmed name that was typed, which is not empty,
\* and the user of the page as owner, and is one row of the table
CreatedRight ==
  \A k \in 1..Len(created) :
    /\ created[k].name = Trim(created[k].typed) /\ created[k].name # ""
    /\ created[k].owner = created[k].by /\ created[k].owner # NoUser
    /\ \A l \in 1..Len(created) : l # k => created[l].row # created[k].row
    /\ \A r \in peachboards :
         r.id = created[k].row => r.name = created[k].name /\ r.owner_id = created[k].owner

\* when the insert of handleCreateBoard has succeeded, its continuation sends
\* a select filtered by the owner of the new row
FetchIssued ==
  \A c \in calls :
    (c.ok /\ CreateBoardDone(c)) =>
       \E q \in calls' \ calls : q.op = "select" /\ q.owner = c.owner /\ q.after = c.row

\* the result of select q has the row whose creation caused it
FetchHasRow(q) == \E k \in 1..Len(q.rows) : q.rows[k].id = q.after

\* C6 (as stated): handleCreateBoard with a name that is not empty after
\* trimming and a known user creates exactly one row with the trimmed name
\* and that owner, and then sends a select filtered by that owner whose
\* result contains the new row.
C6_CreatedAndListed ==
  [][/\ CreatedRight'
     /\ FetchIssued
     /\ \A q \in calls' :
          (q.op = "select" /\ q.after # NoBoard /\ q.served /\ q.ok) => FetchHasRow(q)]_vars

\* C6 (amended): as C6, but the result of the select contains the new row
\* unless the row was deleted before the select was served.
C6_CreatedAndListedUnlessDeleted ==
  [][/\ CreatedRight'
     /\ FetchIssued
     /\ \A q \in calls' :
          (q.op = "select" /\ q.after # NoBoard /\ q.served /\ q.ok) =>
             (FetchHasRow(q) \/ q.after \notin {r.id : r \in peachboards'})]_vars

\* C6 happens: a board typed with spaces around its name was created and the
\* select sent after it has come back with the new row.
C6_Witness ==
  \E q \in calls :
    /\ q.op = "select" /\ q.after # NoBoard /\ q.served /\ q.ok /\ FetchHasRow(q)
    /\ \E k \in 1..Len(created) : created[k].row = q.after /\ created[k].typed = " a "

\* ------------------------------------------------------- failed requests
\* the continuation of a request that failed runs: a list fetch, a create or
\* a delete of the dashboard, the bulk fetch or an insert of the board view
FailedRequest ==
  \/ \E c \in calls : ~c.ok /\ (FetchBoardsDone(c) \/ CreateBoardDone(c) \/ DeleteBoardDone(c))
  \/ FetchFailed
  \/ InsertFailed

\* C11: when a request fails, the board list and the local element list are
\* after the failure what they were before it.
C11_FailureKeepsLists ==
  [][FailedRequest => (boards' = boards /\ elements' = elements)]_vars

\* ----------------------------------------------------- rows of any writer
\* element_data d with field f absent
Without(d, f) == [d EXCEPT !.has = @ \ {f}]
\* element_data as any writer of the table can leave it: complete, or with a
\* field missing, or a stroke without points
RowData ==
  LET rect == RectData(0, 0, 1, 1, "#0000ff", 5)
      circle == CircleData(0, 0, 1, "#0000ff", 5)
      pen == LineData("pen", <<0, 0, 1, 1>>, "#0000ff", 5)
  IN {rect, circle, pen, LineData("eraser", <<>>, "#0000ff", 5)}
     \cup {Without(rect, f) : f \in {"x", "y", "width", "color"}}
     \cup {Without(circle, f) : f \in {"y", "radius", "strokeWidth"}}
     \cup {Without(pen, f) : f \in {"points", "tool", "color"}}

\* A board is opened while rows of any writer are in the table and arrive as
\* notifications.
NextRows ==
  \/ FetchBoardDetails
  \/ BoardFound
  \/ FetchServe
  \/ FetchDone
  \/ Render
  \/ ForeignInsertOf(RowData)
  \/ RealtimeInsert

SpecRows == InitOn({ById(1)}) /\ [][NextRows]_vars

\* the payload has tool, color and strokeWidth and the fields of its tool
WellShaped(d) ==
  /\ {"tool", "color", "strokeWidth"} \subseteq d.has
  /\ \/ d.tool \in {"pen", "eraser"} /\ "points" \in d.has /\ Len(d.points) > 0
     \/ d.tool = "rectangle" /\ {"x", "y", "width", "height"} \subseteq d.has
     \/ d.tool = "circle" /\ {"x", "y", "radius"} \subseteq d.has

\* C12: every entry the bulk fetch or a notification has put into the list
\* (an entry with an id) comes from a row whose payload has tool, color and
\* strokeWidth and the fields of its tool.
C12_ListedRowsWellShaped ==
  \A i \in 1..Len(elements) :
    elements[i].id # NoId => WellShaped(boardLines[elements[i].id].element_data)

\* -------------------------------------------------------------- share link
\* handleShareClick: the URL copied for a loaded board b that has a share
\* link id: origin + /share/ + share_link_id
ShareUrl(b) == Path("share", b.share_link_id)

\* C13: when the URL the share button copies for a board is opened, the
\* board page is rendered with the share link id of the board as
\* shareLinkId, and the board loaded by it is the board with that
\* share_link_id.
C13_ShareUrlOpensBoard ==
  \A b \in peachboards :
    location = ShareUrl(b) =>
      /\ page = "BoardPage"
      /\ params.shareLinkId = b.share_link_id
      /\ board \in {NoBoard, b.id}

\* ------------------------------------------------------------- the error
\* errors the realtime channel reports in a run
MaxErrors == 2

\* the subscribe callback of the realtime effect is called with status
\* CHANNEL_ERROR or TIMED_OUT
ChannelError ==
  /\ channel # NoBoard /\ Len(error) < MaxErrors
  /\ error' = Append(error, "Realtime connection error.")
  /\ UNCHANGED <<board, loading, elements, stageScale, stagePos, zoomInputValue, tool,
                 strokeColor, strokeWidth, refVars, renderVars, netVars, histVars>>
  /\ UNCHANGED pageVars

\* Drawing on an open board while requests and the realtime channel fail.
NextErr ==
  \/ Next
  \/ ChannelError

SpecErr == Init /\ [][NextErr]_vars

\* the requests of the page: bulk fetches awaited, inserts sent so far, the
\* board query awaited
Pending == Cardinality(fetches) + Len(issued) + (IF load = "query" THEN 1 ELSE 0)

\* C14: once the error is set it stays set (messages are only added), every
\* render committed from then on shows no canvas and the canvas does not come
\* back, and no step other than a pointer-up of the user sends a request.
C14_ErrorTerminal ==
  [][error # <<>> =>
       /\ Len(error') >= Len(error) /\ SubSeq(error', 1, Len(error)) = error
       /\ rShown' => rShown
       /\ Render => ~rShown'
       /\ ~UpEvent => Pending' <= Pending]_vars

\* C14 happens: a board was loaded and drawn on, two failures were reported
\* and the render after them has replaced the canvas by the message.
C14_Witness ==
  /\ Len(error) >= 2 /\ board # NoBoard /\ rBoard = board /\ ~rShown
  /\ elements # <<>> /\ rElements = elements

\* ------------------------------------------------- every pointer event
\* e.evt.button: left, middle, right
Buttons == {0, 1, 2}
\* client positions of the second finger of a touch with two fingers
Fingers == {[x |-> 2 * MaxCoord, y |-> 0], [x |-> 4 * MaxCoord, y |-> 0]}
\* pan and pinch events handled in a run of NextPointer
MaxPans == 2

\* One client draws, pans and pinches on an open board with every button
\* and with one or two fingers.
NextPointer ==
  \/ FetchBoardDetails
  \/ BoardFound
  \/ Render
  \/ \E t \in Tools : ~isDrawing /\ gesture < MaxGestures /\ SetTool(t)
  \/ \E p \in Pts : HandleMouseDown(0, p)
  \/ \E b \in Buttons \ {0}, p \in WheelPts : zooms < MaxPans /\ HandleMouseDown(b, p)
  \/ \E p \in Pts : (isPanning => zooms < MaxPans) /\ HandleMouseMove(p)
  \/ HandleMouseUp
  \/ \E p \in Pts : HandleTouchStart(1, p, p, p)
  \/ \E t \in Fingers : zooms < MaxPans /\ HandleTouchStart(2, Origin, Origin, t)
  \/ \E p \in Pts : HandleTouchMove(1, p, p, p)
  \/ \E t \in Fingers : zooms < MaxPans /\ HandleTouchMove(2, Origin, Origin, t)
  \/ HandleTouchEnd

SpecPointer == InitOn({ById(1)}) /\ [][NextPointer]_vars

\* e is an element of the selected tool, colour and width, without id and
\* without extent, anchored at the point pos of the stage
ZeroExtentAt(e, pos) ==
  /\ e.id = NoId /\ e.tool = tool /\ e.color = strokeColor /\ e.strokeWidth = strokeWidth
  /\ IsStroke(e) => e.points = <<pos.x, pos.y>>
  /\ e.tool = "rectangle" => e.x = pos.x /\ e.y = pos.y /\ e.width = 0 /\ e.height = 0
  /\ e.tool = "circle" => e.x = pos.x /\ e.y = pos.y /\ e.radius = 0

\* C15: a pointer-down with the primary button or a touch-start with one
\* touch appends exactly one element to the end of the list, of the selected
\* tool, colour and width, with zero extent, anchored at the pointer position
\* on the stage; a pointer-down with the middle button or a touch-start with
\* two touches appends nothing and records the pan anchor.
C15_DownAppendsOne ==
  [][/\ \A p \in Pts :
          (HandleMouseDown(0, p) \/ HandleTouchStart(1, p, p, p)) =>
             /\ Len(elements') = Len(elements) + 1
             /\ Front(elements') = elements
             /\ ZeroExtentAt(Last(elements'), Rel(p))
     /\ \A p \in WheelPts :
          HandleMouseDown(1, p) => (elements' = elements /\ panStartPoint' = p)
     /\ \A t \in Fingers :
          HandleTouchStart(2, Origin, Origin, t) =>
             (elements' = elements /\ panStartPoint' = getCenter(Origin, t))]_vars

\* C15 happens: after a pinch that moved and scaled the stage, a circle was
\* started at a pointer position that is not the origin of the stage.
C15_Witness ==
  /\ isDrawing /\ panStartPoint # NoPoint /\ stageScale # ScaleUnit
  /\ elements # <<>>
  /\ Last(elements).tool = "circle" /\ Last(elements).radius = 0
  /\ Last(elements).x # 0

\* C16: after any sequence of mouse-down (any button), mouse-move, mouse-up,
\* touch-start, touch-move and touch-end events the drawing flag and the
\* panning flag are not both set.
C16_NotDrawingAndPanning == ~(isDrawing /\ isPanning)

\* C16 happens: a pinch was ended by a touch-end, which leaves the panning
\* flag set, and then a drawing gesture was started.
C16_Witness ==
  /\ isDrawing /\ ~isPanning
  /\ panStartPoint # NoPoint /\ lastCenter = NoPoint /\ zooms > 0
  /\ elements # <<>>

\* ------------------------------------------------- changing the board shown
\* The location changes from one board route to another (history navigation)
\* while the board page stays mounted: the route parameters change and the
\* effect on [boardId, shareLinkId] is run again.
ChangeParams(p) ==
  /\ page = "BoardPage" /\ load = "done" /\ p # params
  /\ ops < MaxOps /\ ops' = ops + 1
  /\ params' = p /\ location' = PathOf(p) /\ load' = "mounted"
  /\ UNCHANGED <<boardVars, refVars, renderVars, peachboards, boardLines, fetches, issued,
                 inflight, histVars>>
  /\ UNCHANGED <<page, inst, session, dashVars, calls, ncalls, created, authVars>>

\* A board page is moved between the routes of two boards while other
\* clients write rows of both and the rows arrive as notifications.
NextChannel ==
  \/ FetchBoardDetails
  \/ BoardFound
  \/ BoardNotFound
  \/ FetchServe
  \/ FetchDone
  \/ Render
  \/ ForeignInsert
  \/ RealtimeInsert
  \/ \E b \in BoardIds : ChangeParams(ById(b))

SpecChannel == InitOn({ById(1)}) /\ [][NextChannel]_vars

\* C17: a notification is merged into the list only when its row belongs to
\* the board that is currently loaded.
C17_OnlyLoadedBoardMerged ==
  [][(RealtimeInsert /\ elements' # elements)
       => boardLines[Last(elements').id].board_id = board]_vars

\* ------------------------------------------------------ the session ending
\* the pages of the protected routes
Protected == {"DashboardPage", "BoardPage"}

\* A signed-in visitor opens a path; the pages load and redirect, the session
\* expires, and the visitor signs out and in.
InitSignedIn == InitApp /\ session = 1

SpecSignedIn == InitSignedIn /\ [][NextApp]_vars

\* C18: when the session has ended while a protected page is displayed, the
\* next render of the page (the evaluation of the route guard) leaves the
\* protected page; and a successful logout from the dashboard ends on /login.
C18_NoSessionLeavesProtected ==
  [][/\ (session = NoUser /\ page \in Protected /\ Render) => page' \notin Protected
     /\ \A c \in calls : (c.ok /\ LogoutDone(c)) => location' = LoginPath]_vars

\* ------------------------------------------------------------ AuthProvider
\* sessions of the auth service: none, or the session of a user
Sessions == {NoUser, 1, 2}
\* calls of the auth listener in a run
MaxAuthEvents == 3

\* ProtectedRoute: what the guard returns for the context value a
ProtectedRoute(a) ==
  IF a.loading THEN "Loading authentication..."
  ELSE IF a.session = NoUser THEN "Navigate to /login"
  ELSE "Outlet"

\* supabase.auth.getSession() of the mount effect is answered: it resolves
\* with the session the service holds, or rejects
ProbeServe(ok) ==
  /\ auth.probe = "pending"
  /\ auth' = [auth EXCEPT !.probe = IF ok THEN "resolved" ELSE "rejected",
                          !.probed = IF ok THEN session ELSE NoUser]
  /\ UNCHANGED <<boardVars, refVars, renderVars, netVars, histVars, appVars, dashVars,
                 callVars>>

\* the then / catch callback of getSession()
ProbeDone ==
  /\ auth.probe \in {"resolved", "rejected"}
  /\ auth' = IF auth.probe = "resolved"
             THEN [auth EXCEPT !.session = auth.probed, !.user = auth.probed,
                               !.loading = FALSE, !.probe = "settled"]
             ELSE [auth EXCEPT !.loading = FALSE, !.probe = "settled"]
  /\ UNCHANGED <<boardVars, refVars, renderVars, netVars, histVars, appVars, dashVars,
                 callVars>>

\* the session of the service becomes s (sign-in, sign-out, expiry, refresh)
\* and the onAuthStateChange callback is called with it
AuthStateChange(s) ==
  /\ s # session /\ auth.events < MaxAuthEvents
  /\ session' = s
  /\ auth' = [auth EXCEPT !.session = s, !.user = s, !.heard = TRUE, !.events = @ + 1]
  /\ UNCHANGED <<boardVars, refVars, renderVars, netVars, histVars, location, page, inst,
                 dashVars, callVars>>

\* An AuthProvider is mounted around the guard of a protected route.
InitAuth ==
  /\ BoardFresh /\ DashFresh /\ AuthFresh
  /\ location \in {DashboardPath, Path("board", 1)} /\ page = "ProtectedRoute" /\ inst = 1
  /\ session \in Sessions
  /\ params = RouteParams(location) /\ load = "none"
  /\ peachboards = {BoardRow(b) : b \in BoardIds}
  /\ calls = {} /\ ncalls = 0 /\ ops = 0 /\ created = <<>>

NextAuth ==
  \/ \E ok \in BOOLEAN : ProbeServe(ok)
  \/ ProbeDone
  \/ \E s \in Sessions : AuthStateChange(s)

SpecAuth == InitAuth /\ [][NextAuth]_vars

\* C19: the loading flag starts true, is false once the probe has settled and
\* never becomes true again; while it is true the guard neither redirects nor
\* renders the protected page; and a session the auth listener has delivered
\* before the probe settles is not replaced by the result of the probe.
C19_ProbeSettles ==
  [][/\ (auth.probe # "settled") = auth.loading
     /\ ~auth.loading => ~auth'.loading
     /\ ProbeDone => ~auth'.loading
     /\ auth'.loading => ProtectedRoute(auth') = "Loading authentication..."
     /\ (ProbeDone /\ auth.heard) => auth'.session = auth.session]_vars

\* ------------------------------------------------------------------ useAuth
\* createContext: the default value of AuthContext
DefaultContext == [defined |-> TRUE, session |-> NoUser, user |-> NoUser, loading |-> TRUE]
\* the value undefined
Undefined == [defined |-> FALSE, session |-> NoUser, user |-> NoUser, loading |-> FALSE]

\* useContext(AuthContext) in a component inside the AuthProvider (the value
\* of the provider) or outside of any (the default value of the context)
UseContext(inside) ==
  IF inside
  THEN [defined |-> TRUE, session |-> auth.session, user |-> auth.user,
        loading |-> auth.loading]
  ELSE DefaultContext

\* useAuth: throws when the context is undefined, else returns it
UseAuth(inside) ==
  LET context == UseContext(inside)
  IN IF context = Undefined
     THEN [threw |-> TRUE, value |-> Undefined]
     ELSE [threw |-> FALSE, value |-> context]

\* C20: useAuth called by a component that is not inside an AuthProvider
\* raises its error instead of returning a context value.
C20_UseAuthThrowsOutside == UseAuth(FALSE).threw

\* ------------------------------------------------------ creating a board
\* A signed-in user has the dashboard open; handleCreateBoard is called with
\* whatever the name input holds, also before the user is identified.
NextCreate ==
  \/ \E c \in calls, ok \in BOOLEAN : ServeCall(c, ok)
  \/ \E c \in calls : LoginSessionDone(c)
  \/ \E c \in calls : InitializeDone(c)
  \/ \E c \in calls : FetchBoardsDone(c)
  \/ \E v \in Names : SetNewBoardName(v)
  \/ HandleCreateBoard
  \/ \E c \in calls : CreateBoardDone(c)

SpecCreate == InitDash /\ [][NextCreate]_vars

\* C21: handleCreateBoard with a name that is empty or only whitespace, or
\* with no identified user, sends no request (no insert, no list fetch), sets
\* the create error, and leaves the board list, the table, the name input and
\* the loading flag as they are; and when a call that sent its insert has
\* completed, with success or failure, the create loading flag is false.
C21_CreateRefused ==
  [][/\ (HandleCreateBoard /\ (Trim(newBoardName) = "" \/ userId = NoUser)) =>
          /\ calls' = calls /\ ncalls' = ncalls /\ peachboards' = peachboards
          /\ dashError' # ""
          /\ boards' = boards /\ newBoardName' = newBoardName
          /\ dashLoading' = dashLoading
     /\ \A c \in calls : (CreateBoardDone(c) /\ c.inst = inst) => ~dashLoading']_vars

\* C21 happens: a board was created, its call has completed, and a later call
\* with the emptied name input was refused.
C21_Witness ==
  /\ created # <<>> /\ ~dashLoading /\ newBoardName = ""
  /\ dashError = "Board name cannot be empty."
  /\ \A c \in calls : c.op # "insert"

\* ------------------------------------------------- renaming and deleting
\* A signed-in user has the dashboard open, creates, renames and deletes
\* boards.
NextBoards ==
  \/ NextDash
  \/ \E k \in 1..(1 + MaxOps) : HandleStartRename(k)
  \/ \E v \in RenameValues : SetRenameValue(v)
  \/ HandleCancelRename
  \/ HandleConfirmRename
  \/ \E c \in calls : ConfirmRenameDone(c)

SpecBoards == InitDash /\ [][NextBoards]_vars

C26_MarkerIsBoardInFlight ==
  \A c \in calls :
    (c.op \in {"delete", "update"} /\ c.inst = inst) => actionLoading = c.row

\* C27: once no list fetch of the page is in flight, the list displayed (no
\* fetch error is shown instead) holds the rows the most recently sent fetch
\* returned, in whatever order the responses of the fetches were handled.
C27_ListIsLatestFetch ==
  (/\ page = "DashboardPage"
   /\ \A c \in calls : ~(c.op = "select" /\ c.inst = inst)
   /\ fetched.done /\ fetched.ok /\ fetchError = "")
     => boards = fetched.rows

\* ------------------------------------------------- panning with the mouse
\* One client pans an open board with the middle button, several times; the
\* scale stays 1, so that every quotient is exact.
NextPan ==
  \/ FetchBoardDetails
  \/ BoardFound
  \/ FetchServe
  \/ FetchDone
  \/ Render
  \/ \E p \in Grid : HandleMouseDown(1, p)
  \/ \E p \in Grid : HandleMouseMove(p)
  \/ HandleMouseUp

SpecPan == InitOn({ById(1)}) /\ [][NextPan]_vars

\* C23: a pointer-move of a middle-button pan sets the stage translation to
\* the translation the stage had at the press plus the displacement of the
\* pointer from the pan anchor, whatever translation the stage had; and
\* neither the press, nor a move, nor the release of the pan changes the
\* element list.
C23_PanFollowsPointer ==
  [][\A p \in Grid :
       /\ (HandleMouseMove(p) /\ isPanning /\ panFrom # NoPoint) =>
            stagePos' = [x |-> panFrom.x + (p.x - panStartPoint.x),
                         y |-> panFrom.y + (p.y - panStartPoint.y)]
       /\ (\/ HandleMouseDown(1, p)
           \/ isPanning /\ (HandleMouseMove(p) \/ HandleMouseUp)) => elements' = elements]_vars

\* ------------------------------------------------ the drawn element's row
\* C24: when the row of an element drawn here has come back as a notification
\* (the list holds the entry with the id of that row), the list does not also
\* hold the provisional entry of that element, the one without id.
C24_DrawnElementOnce ==
  \A j, k \in 1..Len(elements) :
    (elements[j].id # NoId /\ boardLines[elements[j].id].own # 0) =>
       ~(/\ elements[k].id = NoId
         /\ elements[k].g = issued[boardLines[elements[j].id].own].from.g)

\* ------------------------------------------- the bulk fetch and the list
\* C25: while the same board stays loaded, a step other than a pointer-up
\* (which discards a gesture without extent) drops no entry of the list: an
\* entry merged from a notification is still there under its id, an entry
\* drawn here under its gesture.  In particular the bulk fetch that completes
\* after them drops none.
C25_NothingDropped ==
  [][(board # NoBoard /\ board' = board /\ ~UpEvent) =>
       \A i \in 1..Len(elements) :
         \E j \in 1..Len(elements') :
           IF elements[i].id # NoId THEN elements'[j].id = elements[i].id
           ELSE elements'[j].id = NoId /\ elements'[j].g = elements[i].g]_vars

\* ------------------------------------------------------- the two readers
\* C28: every payload saveElementToDb has sent is accepted by the reader of
\* the bulk fetch and by the reader of the notifications, and both rebuild it
\* with its tool, colour, width and geometry; and every row of the table is
\* accepted by both readers or by neither.
C28_ReadersAgree ==
  /\ \A k \in 1..Len(issued) :
       LET d == issued[k].element_data
           row == [id |-> k, board_id |-> issued[k].board_id, element_data |-> d, own |-> k]
           e == ElementOf(row)
       IN /\ ReadInitial(row) = <<e>> /\ ReadRealtime(row) = <<e>>
          /\ e.tool = d.tool /\ e.color = d.color /\ e.strokeWidth = d.strokeWidth
          /\ e.points = d.points /\ e.x = d.x /\ e.y = d.y
          /\ e.width = d.width /\ e.height = d.height /\ e.radius = d.radius
  /\ \A i \in 1..Len(boardLines) :
       (ReadInitial(boardLines[i]) # <<>>) <=> (ReadRealtime(boardLines[i]) # <<>>)

\* ------------------------------------------------- the payload at pointer-up
\* C29: the payload a pointer-up or touch-end sends is made from the element
\* of the gesture as the list holds it at that moment, with every point and
\* the last width, height or radius the pointer-moves of the gesture gave it,
\* also when the render after the last pointer-move has not been committed.
C29_PayloadIsCurrentElement ==
  [][(UpEvent /\ isDrawing /\ Len(issued') > Len(issued)) =>
       \E i \in Own :
         issued'[Len(issued')].element_data = SaveDecision(rBoard, <<elements[i]>>).data]_vars

\* ------------------------------------------------------ provisional entries
\* C30: whenever no gesture is in progress (neither flag is set), every entry
\* of the list without id is the element of a gesture for which an insert
\* was sent.
C30_ProvisionalWasSent ==
  (~isDrawing /\ ~isPanning) =>
     \A i \in 1..Len(elements) :
       elements[i].id = NoId => \E k \in 1..Len(issued) : issued[k].from.g = elements[i].g

====
